---- MODULE Spec2Model ----
(***************************************************************************)
(* RATE framework, Appendix B script (RATE_ZZ_robustness.py).              *)
(*                                                                         *)
(* Numbers.  TLC has integers only, so every float of the script is a      *)
(* fixed-point integer or the value NaN:                                   *)
(*   a float is a record [nan, v]; NaN is [nan |-> TRUE, v |-> 0];         *)
(*   the value returned by find_intersection is a record                   *)
(*   [none, nan, num, den]: None, NaN, or the exact rational num/den.      *)
(*                                                                         *)
(* Three specifications:                                                   *)
(*   SpecFind   find_intersection on every grid and curves of bounded size;*)
(*   SpecSolve  psychological_anchor_nonlinear on a range of sigma and r;  *)
(*   Spec       the script, sections 3 to 5, from its parameters to the    *)
(*              rows of table B-1.                                         *)
(***************************************************************************)
EXTENDS Integers, Sequences, FiniteSets, TLC

VARIABLES
    fi_pc,      \* harness of find_intersection: "call" | "done"
    fi_x,       \* argument x      (sequence of integers, the grid)
    fi_y1,      \* argument y1     (sequence of floats)
    fi_y2,      \* argument y2     (sequence of floats)
    fi_idx,     \* local idx of find_intersection (-1 while unset)
    fi_out,     \* value returned by find_intersection
    sv_pc,      \* harness of psychological_anchor_nonlinear: "call" | "done"
    sv_sigma,   \* argument sigma, in units of 0.01
    sv_r,       \* argument r, in units of 0.001
    sv_f,       \* the residual the call evaluates (see equation)
    sv_out,     \* outcome of the call
    pc,                 \* position in the script
    par,                \* the parameters of section 1
    sigma_grid,         \* sigma_grid, units of 0.01
    E_T,                \* E_T, floats in units of 0.001 year
    n_lin_dict,         \* n_lin_dict, by position in LAMBDA_LIST
    n_nonlin,           \* n_nonlin, as far as the sweep has come
    calls,              \* history: the sigma of every solver call, in order
    sigma_valid,        \* sigma_grid[valid_mask]
    n_nonlin_valid,     \* n_nonlin[valid_mask]
    E_T_valid,          \* E_T[valid_mask]
    sigma_star_nonlin,  \* sigma_star_nonlin
    sigma_star_lin_dict,\* sigma_star_lin_dict, by position in LAMBDA_LIST
    table               \* the rows of table B-1 printed so far

fi_vars == <<fi_pc, fi_x, fi_y1, fi_y2, fi_idx, fi_out>>

sv_vars == <<sv_pc, sv_sigma, sv_r, sv_f, sv_out>>

sc_vars == <<pc, par, sigma_grid, E_T, n_lin_dict, n_nonlin, calls, sigma_valid,
             n_nonlin_valid, E_T_valid, sigma_star_nonlin, sigma_star_lin_dict,
             table>>

vars == <<fi_vars, sv_vars, sc_vars>>

----------------------------------------------------------------------------
(* Floats *)

NaN == [nan |-> TRUE, v |-> 0]

F(n) == [nan |-> FALSE, v |-> n]

\* y1 - y2 on floats: NaN when either side is NaN.
FSub(a, b) == IF a.nan \/ b.nan THEN NaN ELSE F(a.v - b.v)

\* np.sign on an integer: -1, 0 or +1.
Sgn(n) == IF n > 0 THEN 1 ELSE IF n < 0 THEN 0 - 1 ELSE 0

\* np.sign on a float: NaN stays NaN.
FSign(a) == IF a.nan THEN NaN ELSE F(Sgn(a.v))

\* Truth value of a float as np.where / np.nonzero reads it: every value
\* other than 0 is true, NaN included.
Truthy(a) == a.nan \/ a.v # 0

SetMin(S) == CHOOSE m \in S : \A k \in S : m <= k

----------------------------------------------------------------------------
(* find_intersection, lines 120-129 *)

NoneResult == [none |-> TRUE, nan |-> FALSE, num |-> 0, den |-> 1]

NaNResult == [none |-> FALSE, nan |-> TRUE, num |-> 0, den |-> 1]

\* diff = y1 - y2
CurveDiff(y1, y2) == [i \in 1..Len(y1) |-> FSub(y1[i], y2[i])]

\* np.diff(np.sign(diff)): entry i is sign(diff[i+1]) - sign(diff[i]).
SignSteps(diff) ==
    [i \in 1..(IF Len(diff) = 0 THEN 0 ELSE Len(diff) - 1) |->
        FSub(FSign(diff[i + 1]), FSign(diff[i]))]

\* np.where(...)[0]: the indices whose entry is true.
sign_change(diff) == {i \in DOMAIN SignSteps(diff) : Truthy(SignSteps(diff)[i])}

\* sign_change[0]
FirstIndex(S) == SetMin(S)

\* x1 - y1_1 * (x2 - x1) / (y1_2 - y1_1), kept as an exact rational.
Interpolate(x1, x2, d1, d2) ==
    IF d1.nan \/ d2.nan THEN NaNResult
    ELSE [none |-> FALSE, nan |-> FALSE,
          num |-> x1 * (d2.v - d1.v) - d1.v * (x2 - x1),
          den |-> d2.v - d1.v]

find_intersection_idx(x, y1, y2) ==
    LET diff == CurveDiff(y1, y2)
    IN  IF sign_change(diff) = {} THEN 0 - 1 ELSE FirstIndex(sign_change(diff))

find_intersection(x, y1, y2) ==
    LET diff == CurveDiff(y1, y2)
        idx == find_intersection_idx(x, y1, y2)
    IN  IF idx < 0 THEN NoneResult
        ELSE Interpolate(x[idx], x[idx + 1], diff[idx], diff[idx + 1])

----------------------------------------------------------------------------
(* Psychological time n, in units of 1e-6 (so that xtol = 1e-6 is 1).      *)
(* sigma is in units of 0.01, r in units of 0.001, lambda in units of 0.05:*)
(*   r + lam * sigma = (2 R + L S) / 2000.                                 *)
(* A point the bisection visits is an exact dyadic number                  *)
(*   [i, f, k]  =  i + f / 2^k   with 0 <= f < 2^k,                        *)
(* halving is exact, as it is on binary floats.                            *)

Max(a, b) == IF a >= b THEN a ELSE b

Min(a, b) == IF a <= b THEN a ELSE b

PerYear == 1000 * 1000

\* 1.0 / (r + lam * sigma)
Reciprocal(sigma, lam, r) == (2000 * PerYear) \div (2 * r + lam * sigma)

D(i) == [i |-> i, f |-> 0, k |-> 0]

Lift(a, k) == [i |-> a.i, f |-> a.f * 2^(k - a.k), k |-> k]

\* a + b
DAdd(a, b) ==
    LET k == Max(a.k, b.k)
        s == Lift(a, k).f + Lift(b, k).f
    IN  [i |-> a.i + b.i + (s \div 2^k), f |-> s % 2^k, k |-> k]

\* a * 0.5
Half(a) == [i |-> a.i \div 2, f |-> (a.i % 2) * 2^a.k + a.f, k |-> a.k + 1]

\* sign of a - n for an integer n
DCmp(a, n) ==
    IF a.i > n THEN 1 ELSE IF a.i < n THEN 0 - 1 ELSE IF a.f > 0 THEN 1 ELSE 0

\* a <= b on dyadic numbers
DLeq(a, b) ==
    LET k == Max(a.k, b.k)
    IN  a.i < b.i \/ (a.i = b.i /\ Lift(a, k).f <= Lift(b, k).f)

\* guess_lam = 0.4
GuessLam == 8

\* The residual n - 1/(r + c(sigma, n)) of equation(), lines 82-86, with
\* zz_risk_premium, lines 59-71.  c is built from sqrt, the normal cdf and
\* log, which have no integer model; the residual is represented by what the
\* bisection reads of it, its sign at n.  A residual f is a record
\*   root : where it is zero (units of 1e-6),
\*   dir  : +1 when it is negative below root and positive above, -1 reversed,
\*   bad  : evaluation at any n > bad raises a numeric error.
\* The n <= 0 branch (return 1e6) is kept as written.  The value is
\* [err, s]: err when the evaluation raised, else the sign s.
equation(f, n) ==
    IF n.i < 0 \/ (n.i = 0 /\ n.f = 0) THEN [err |-> FALSE, s |-> 1]
    ELSE IF DCmp(n, f.bad) > 0 THEN [err |-> TRUE, s |-> 0]
    ELSE [err |-> FALSE, s |-> f.dir * DCmp(n, f.root)]

\* root_scalar's default maxiter for method='bisect'
MaxIter == 100

\* xtol = 1e-6
XTol == 1

\* fabs(dm) < xtol + rtol * fabs(xm).  rtol * fabs(xm) is below 5e-14, under
\* the resolution of the model: the test is |dm| <= xtol.
WithinTol(dm) ==
    \/ (dm.i >= 0 /\ DLeq(dm, D(XTol)))
    \/ (dm.i < 0 /\ dm.i >= 0 - XTol)

\* Mutant of MovesLeftEnd: the wrong half is kept.
MovesLeftEnd_Reversed(fm, fa) == fm * fa < 0

\* if (fm * fa >= 0) xa = xm
MovesLeftEnd(fm, fa) == fm * fa >= 0

\* The loop of scipy's bisect: i iterations done, f(xa) has sign fa, dm is
\* the width left.  The value is [status, root, iterations, trace], trace
\* holding [xa, dm] as they stand at the end of each iteration.
RECURSIVE BisectLoop(_, _, _, _, _, _)
BisectLoop(f, fa, xa, dm, i, trace) ==
    IF i >= MaxIter
    THEN [status |-> "converr", root |-> xa, iterations |-> i, trace |-> trace]
    ELSE
        LET dm2 == Half(dm)
            xm == DAdd(xa, dm2)
            fm == equation(f, xm)
            xa2 == IF MovesLeftEnd(fm.s, fa) THEN xm ELSE xa
            trace2 == Append(trace, [xa |-> xa2, dm |-> dm2])
        IN  IF fm.err
            THEN [status |-> "raised", root |-> xm, iterations |-> i + 1,
                  trace |-> trace]
            ELSE IF fm.s = 0 \/ WithinTol(dm2)
            THEN [status |-> "converged", root |-> xm, iterations |-> i + 1,
                  trace |-> trace2]
            ELSE BisectLoop(f, fa, xa2, dm2, i + 1, trace2)

\* root_scalar(equation, bracket=[a, b], method='bisect', xtol=1e-6)
root_scalar(f, a, b) ==
    LET fa == equation(f, D(a))
        fb == equation(f, D(b))
    IN  IF fa.err
        THEN [status |-> "raised", root |-> D(a), iterations |-> 0, trace |-> <<>>]
        ELSE IF fb.err
        THEN [status |-> "raised", root |-> D(b), iterations |-> 0, trace |-> <<>>]
        ELSE IF fa.s = 0
        THEN [status |-> "converged", root |-> D(a), iterations |-> 0, trace |-> <<>>]
        ELSE IF fb.s = 0
        THEN [status |-> "converged", root |-> D(b), iterations |-> 0, trace |-> <<>>]
        ELSE IF fa.s = fb.s
        THEN [status |-> "signerr", root |-> D(0), iterations |-> 0, trace |-> <<>>]
        ELSE BisectLoop(f, fa.s, D(a), D(b - a), 0, <<>>)

\* n_guess = 1.0 / (r + guess_lam * sigma)
n_guess(sigma, r) == Reciprocal(sigma, GuessLam, r)

\* Mutant of bracket_low: the floor of 0.5 is dropped.
bracket_low_Unclamped(sigma, r) == n_guess(sigma, r) \div 10

\* bracket_low = max(0.1 * n_guess, 0.5)
bracket_low(sigma, r) == Max(n_guess(sigma, r) \div 10, PerYear \div 2)

\* bracket_high = min(10.0 * n_guess, 50.0); the product is formed only where
\* it is below the cap.
bracket_high(sigma, r) ==
    IF n_guess(sigma, r) >= 5 * PerYear THEN 50 * PerYear
    ELSE 10 * n_guess(sigma, r)

\* Mutant of psychological_anchor_nonlinear: sol.root is returned whether or
\* not the solver converged, and an exception is answered with 0.
psychological_anchor_nonlinear_Unchecked(sigma, r, f) ==
    LET sol == root_scalar(f, bracket_low(sigma, r), bracket_high(sigma, r))
    IN  [nan |-> FALSE, n |-> sol.root, sol |-> sol]

\* psychological_anchor_nonlinear, lines 73-95.  The value is
\* [nan, n, sol]: the float returned (NaN, or n in units of 1e-6 as a dyadic
\* number) and what root_scalar did.
psychological_anchor_nonlinear(sigma, r, f) ==
    LET sol == root_scalar(f, bracket_low(sigma, r), bracket_high(sigma, r))
    IN  [nan |-> sol.status # "converged",
         n |-> IF sol.status = "converged" THEN sol.root ELSE D(0),
         sol |-> sol]

----------------------------------------------------------------------------
(* Harness: psychological_anchor_nonlinear applied to sigma >= 0, r > 0    *)
(* and every residual of a bounded family.                                 *)

MaxSigma == 100

\* sigma = 0, 0.01, ..., 1.00, and 4.91, 5, 50
SigmaInputs == (0..MaxSigma) \cup {491, 500, 5000}

\* r = 0.001, 0.002, 0.018, 0.2, 0.5, 20
RInputs == {1, 2, 18, 200, 500, 20000}

\* zeros of the residual: 0.3, 0.5, 0.793086, 25.25, 47.392764, 50, 55.555556
RootInputs == {300000, 500000, 793086, 25250000, 47392764, 50000000, 55555556}

\* never raises (above every bracket), or raises above n = 30
Never == 2000 * PerYear

BadInputs == {Never, 30000000}

Residuals == [root : RootInputs, dir : {1, 0 - 1}, bad : BadInputs]

NoOutcome == [nan |-> TRUE, n |-> D(0),
              sol |-> [status |-> "none", root |-> D(0), iterations |-> 0,
                       trace |-> <<>>]]

InitSolve ==
    /\ sv_pc = "call"
    /\ sv_sigma \in SigmaInputs
    /\ sv_r \in RInputs
    /\ sv_f \in Residuals
    /\ sv_out = NoOutcome

CallSolver ==
    /\ sv_pc = "call"
    /\ sv_out' = psychological_anchor_nonlinear(sv_sigma, sv_r, sv_f)
    /\ sv_pc' = "done"
    /\ UNCHANGED <<sv_sigma, sv_r, sv_f>>

----------------------------------------------------------------------------
(* Harness: find_intersection applied to every grid and pair of curves of  *)
(* a bounded size.                                                         *)

MaxLen == 3

MaxVal == 2

GridValues == 0..MaxLen

CurveValues == {NaN} \cup {F(n) : n \in 0..MaxVal}

\* The script at rest.
ScriptIdle ==
    /\ pc = "idle"
    /\ par = [R |-> 18, G |-> 20, M |-> 2, SIGMA_MIN |-> 10, SIGMA_MAX |-> 65,
              N_POINTS |-> 300, LAMBDA_LIST |-> <<4, 5, 6>>]
    /\ sigma_grid = <<>>
    /\ E_T = <<>>
    /\ n_lin_dict = <<>>
    /\ n_nonlin = <<>>
    /\ calls = <<>>
    /\ sigma_valid = <<>>
    /\ n_nonlin_valid = <<>>
    /\ E_T_valid = <<>>
    /\ sigma_star_nonlin = NoneResult
    /\ sigma_star_lin_dict = <<>>
    /\ table = <<>>

\* The solver harness at rest.
SolverIdle ==
    /\ sv_pc = "idle"
    /\ sv_sigma = 0
    /\ sv_r = 1
    /\ sv_f = [root |-> 0, dir |-> 1, bad |-> 0]
    /\ sv_out = NoOutcome

Increasing(s) == \A i \in 1..Len(s) : \A j \in 1..Len(s) : i < j => s[i] < s[j]

Grids == UNION {{s \in [1..n -> GridValues] : Increasing(s)} : n \in 0..MaxLen}

Curves(n) == [1..n -> CurveValues]

InitFind ==
    /\ fi_pc = "call"
    /\ fi_x \in Grids
    /\ fi_y1 \in Curves(Len(fi_x))
    /\ fi_y2 \in Curves(Len(fi_x))
    /\ fi_idx = 0 - 1
    /\ fi_out = NoneResult
    /\ SolverIdle
    /\ ScriptIdle

CallFindIntersection ==
    /\ fi_pc = "call"
    /\ fi_idx' = find_intersection_idx(fi_x, fi_y1, fi_y2)
    /\ fi_out' = find_intersection(fi_x, fi_y1, fi_y2)
    /\ fi_pc' = "done"
    /\ UNCHANGED <<fi_x, fi_y1, fi_y2>>
    /\ UNCHANGED <<sv_vars, sc_vars>>

NextFind == CallFindIntersection

SpecFind == InitFind /\ [][NextFind]_vars

\* The find_intersection harness at rest.
FindIdle ==
    /\ fi_pc = "idle"
    /\ fi_x = <<>>
    /\ fi_y1 = <<>>
    /\ fi_y2 = <<>>
    /\ fi_idx = 0 - 1
    /\ fi_out = NoneResult

InitSolver == InitSolve /\ FindIdle /\ ScriptIdle

NextSolve == CallSolver /\ UNCHANGED <<fi_vars, sc_vars>>

SpecSolve == InitSolver /\ [][NextSolve]_vars

----------------------------------------------------------------------------
(* The script, sections 3 to 5 (lines 100-152).  Curves are floats in     *)
(* units of 0.001 year; g is in units of 0.01; an equilibrium sigma* is a  *)
(* float in units of 0.00001.                                              *)

\* np.linspace(start, stop, num)
linspace(start, stop, num) ==
    [i \in 1..num |->
        IF num = 1 THEN start
        ELSE start + ((i - 1) * (stop - start)) \div (num - 1)]

\* np.log(M), in units of 1e-6
LogM(m) == IF m = 1 THEN 0 ELSE IF m = 2 THEN 693147 ELSE 1098612

\* physical_anchor at one grid point, lines 45-48:
\* mu_geo = g - 0.5 sigma^2 = (200 G - S^2) / 20000, NaN unless mu_geo > 0.
physical_anchor_at(sigma, g, m) ==
    LET mu_geo == 200 * g - sigma * sigma
    IN  IF mu_geo > 0 THEN F((20 * LogM(m)) \div mu_geo) ELSE NaN

\* physical_anchor, lines 40-49
physical_anchor(sigma, g, m) ==
    [i \in 1..Len(sigma) |-> physical_anchor_at(sigma[i], g, m)]

\* psychological_anchor_linear, lines 51-57
psychological_anchor_linear(sigma, lam, r) ==
    [i \in 1..Len(sigma) |-> F(Reciprocal(sigma[i], lam, r) \div 1000)]

\* The float the solver returned, as an entry of the curve n_nonlin.
CurveEntry(out) == IF out.nan THEN NaN ELSE F(out.n.i \div 1000)

\* valid_mask = ~np.isnan(n_nonlin); a[valid_mask]
RECURSIVE Masked(_, _)
Masked(a, nn) ==
    IF nn = <<>> THEN <<>>
    ELSE IF nn[1].nan THEN Masked(Tail(a), Tail(nn))
    ELSE <<a[1]>> \o Masked(Tail(a), Tail(nn))

\* The float held by a value find_intersection returned (not None).
AsFloat(res) ==
    IF res.nan THEN NaN
    ELSE LET n == IF res.den < 0 THEN 0 - res.num ELSE res.num
             d == IF res.den < 0 THEN 0 - res.den ELSE res.den
         IN  F((n \div d) * 1000 + ((n % d) * 1000) \div d)

\* Mutant of SweepDone: the sweep also ends at the first failed point.
SweepDone_StopsAtFailure(grid, nn) ==
    \/ Len(nn) = Len(grid)
    \/ (nn # <<>> /\ nn[Len(nn)].nan)

\* The comprehension of line 109 has gone through sigma_grid.
SweepDone(grid, nn) == Len(nn) = Len(grid)

\* if lin_star is not None and nonlin_star is not None
PrintsRow(lin_star, nonlin_star) == ~lin_star.none /\ ~nonlin_star.none

\* One printed row of table B-1, lines 151-152.
Row(lam, lin_star, nonlin_star) ==
    [lam |-> lam,
     lin_star |-> AsFloat(lin_star),
     nonlin_star |-> AsFloat(nonlin_star),
     diff |-> FSub(AsFloat(lin_star), AsFloat(nonlin_star))]

\* Bounds of the parameters the model runs the script with.
MaxN == 3

\* r = 1.8%
RValues == {18}

\* g = 20%
GValues == {20}

\* M = 2, and M = 1
MValues == {1, 2}

\* SIGMA_MIN = 0.10, and 0
SigmaMinValues == {0, 10}

\* SIGMA_MAX = 0.65, and 0.60, 0.05
SigmaMaxValues == {5, 60, 65}

\* LAMBDA_LIST = [0.20, 0.25, 0.30], and [0.30, 0.20]
LambdaLists == {<<4, 5, 6>>, <<6, 4>>}

Parameters ==
    [R : RValues, G : GValues, M : MValues, SIGMA_MIN : SigmaMinValues,
     SIGMA_MAX : SigmaMaxValues, N_POINTS : 0..MaxN, LAMBDA_LIST : LambdaLists]

\* The residuals met in the sweep: zero at 0.3 (under every bracket), at 20
\* and at 60 (above every bracket); no evaluation raises.
SweepResiduals == [root : {300000, 20000000, 60000000}, dir : {1}, bad : {Never}]

InitScript ==
    /\ pc = "grid"
    /\ par \in Parameters
    /\ sigma_grid = <<>>
    /\ E_T = <<>>
    /\ n_lin_dict = <<>>
    /\ n_nonlin = <<>>
    /\ calls = <<>>
    /\ sigma_valid = <<>>
    /\ n_nonlin_valid = <<>>
    /\ E_T_valid = <<>>
    /\ sigma_star_nonlin = NoneResult
    /\ sigma_star_lin_dict = <<>>
    /\ table = <<>>

\* line 100
BuildGrid ==
    /\ pc = "grid"
    /\ sigma_grid' = linspace(par.SIGMA_MIN, par.SIGMA_MAX, par.N_POINTS)
    /\ pc' = "anchors"
    /\ UNCHANGED <<par, E_T, n_lin_dict, n_nonlin, calls, sigma_valid,
                   n_nonlin_valid, E_T_valid, sigma_star_nonlin,
                   sigma_star_lin_dict, table>>

\* lines 101-106
Anchors ==
    /\ pc = "anchors"
    /\ E_T' = physical_anchor(sigma_grid, par.G, par.M)
    /\ n_lin_dict' =
          [k \in 1..Len(par.LAMBDA_LIST) |->
              psychological_anchor_linear(sigma_grid, par.LAMBDA_LIST[k], par.R)]
    /\ pc' = "sweep"
    /\ UNCHANGED <<par, sigma_grid, n_nonlin, calls, sigma_valid,
                   n_nonlin_valid, E_T_valid, sigma_star_nonlin,
                   sigma_star_lin_dict, table>>

\* line 109, one grid point
SolvePoint ==
    /\ pc = "sweep"
    /\ ~SweepDone(sigma_grid, n_nonlin)
    /\ \E f \in SweepResiduals :
          LET s == sigma_grid[Len(n_nonlin) + 1]
          IN  /\ n_nonlin' =
                    Append(n_nonlin,
                           CurveEntry(psychological_anchor_nonlinear(s, par.R, f)))
              /\ calls' = Append(calls, s)
    /\ UNCHANGED <<pc, par, sigma_grid, E_T, n_lin_dict, sigma_valid,
                   n_nonlin_valid, E_T_valid, sigma_star_nonlin,
                   sigma_star_lin_dict, table>>

\* lines 110-112
Mask ==
    /\ pc = "sweep"
    /\ SweepDone(sigma_grid, n_nonlin)
    /\ sigma_valid' = Masked(sigma_grid, n_nonlin)
    /\ n_nonlin_valid' = Masked(n_nonlin, n_nonlin)
    /\ E_T_valid' = Masked(E_T, n_nonlin)
    /\ pc' = "nonlin_star"
    /\ UNCHANGED <<par, sigma_grid, E_T, n_lin_dict, n_nonlin, calls,
                   sigma_star_nonlin, sigma_star_lin_dict, table>>

\* line 132
NonlinStar ==
    /\ pc = "nonlin_star"
    /\ sigma_star_nonlin' = find_intersection(sigma_valid, n_nonlin_valid, E_T_valid)
    /\ pc' = "lin_star"
    /\ UNCHANGED <<par, sigma_grid, E_T, n_lin_dict, n_nonlin, calls, sigma_valid,
                   n_nonlin_valid, E_T_valid, sigma_star_lin_dict, table>>

\* lines 135-137
LinStar ==
    /\ pc = "lin_star"
    /\ sigma_star_lin_dict' =
          [k \in 1..Len(par.LAMBDA_LIST) |->
              find_intersection(sigma_grid, n_lin_dict[k], E_T)]
    /\ pc' = "table"
    /\ UNCHANGED <<par, sigma_grid, E_T, n_lin_dict, n_nonlin, calls, sigma_valid,
                   n_nonlin_valid, E_T_valid, sigma_star_nonlin, table>>

\* lines 147-152, the whole loop
PrintTable ==
    /\ pc = "table"
    /\ table' =
          LET RECURSIVE Rows(_)
              Rows(k) ==
                  IF k > Len(par.LAMBDA_LIST) THEN <<>>
                  ELSE (IF PrintsRow(sigma_star_lin_dict[k], sigma_star_nonlin)
                        THEN <<Row(par.LAMBDA_LIST[k], sigma_star_lin_dict[k],
                                   sigma_star_nonlin)>>
                        ELSE <<>>) \o Rows(k + 1)
          IN  Rows(1)
    /\ pc' = "done"
    /\ UNCHANGED <<par, sigma_grid, E_T, n_lin_dict, n_nonlin, calls, sigma_valid,
                   n_nonlin_valid, E_T_valid, sigma_star_nonlin,
                   sigma_star_lin_dict>>

Init == InitScript /\ FindIdle /\ SolverIdle

Next ==
    \/ BuildGrid /\ UNCHANGED <<fi_vars, sv_vars>>
    \/ Anchors /\ UNCHANGED <<fi_vars, sv_vars>>
    \/ SolvePoint /\ UNCHANGED <<fi_vars, sv_vars>>
    \/ Mask /\ UNCHANGED <<fi_vars, sv_vars>>
    \/ NonlinStar /\ UNCHANGED <<fi_vars, sv_vars>>
    \/ LinStar /\ UNCHANGED <<fi_vars, sv_vars>>
    \/ PrintTable /\ UNCHANGED <<fi_vars, sv_vars>>

Spec == Init /\ [][Next]_vars

----------------------------------------------------------------------------
(* Claims about find_intersection, under SpecFind *)

\* The difference curve of the call in progress.
fi_diff == CurveDiff(fi_y1, fi_y2)

\* Adjacent pairs whose two differences are both defined and differ in sign,
\* the sign taken in {-1, 0, +1}.
DefinedChanges(diff) ==
    {i \in 1..(IF Len(diff) = 0 THEN 0 ELSE Len(diff) - 1) :
        /\ ~diff[i].nan
        /\ ~diff[i + 1].nan
        /\ Sgn(diff[i].v) # Sgn(diff[i + 1].v)}

\* Equality of two returned values, rationals compared by cross-multiplying.
SameResult(a, b) ==
    /\ a.none = b.none
    /\ a.nan = b.nan
    /\ a.num * b.den = b.num * a.den

\* C1: an adjacent pair in which either curve is undefined at either index
\* is never the pair find_intersection reports as the sign change.
C1_UndefinedPairNeverReported ==
    (fi_pc = "done" /\ fi_idx >= 1) =>
        (~fi_diff[fi_idx].nan /\ ~fi_diff[fi_idx + 1].nan)

\* C2: when some adjacent pair has differing signs of d, the value returned
\* is the linear interpolation at the lowest such pair.
C2_FirstSignChangeInterpolated ==
    (fi_pc = "done" /\ DefinedChanges(fi_diff) # {}) =>
        LET i == SetMin(DefinedChanges(fi_diff))
        IN  SameResult(fi_out,
                       Interpolate(fi_x[i], fi_x[i + 1], fi_diff[i], fi_diff[i + 1]))

\* C3: when no adjacent pair has differing signs of d, the value returned is
\* None.
C3_NoSignChangeGivesNone ==
    (fi_pc = "done" /\ DefinedChanges(fi_diff) = {}) => fi_out.none

\* The three statements above restricted to curves that are defined at every
\* grid point: there the code agrees with them.
FindIntersectionOnDefinedCurves ==
    (fi_pc = "done" /\ \A i \in DOMAIN fi_diff : ~fi_diff[i].nan) =>
        /\ C1_UndefinedPairNeverReported
        /\ C2_FirstSignChangeInterpolated
        /\ C3_NoSignChangeGivesNone

----------------------------------------------------------------------------
(* Claims about psychological_anchor_nonlinear, under SpecSolve *)

sv_low == bracket_low(sv_sigma, sv_r)

sv_high == bracket_high(sv_sigma, sv_r)

\* Signs of the residual at the two ends of the seeded bracket.
sv_fa == equation(sv_f, D(sv_low))

sv_fb == equation(sv_f, D(sv_high))

\* The residual is non-zero at both ends and changes sign between them.
SignChangingBracket == ~sv_fa.err /\ ~sv_fb.err /\ sv_fa.s * sv_fb.s < 0

\* The residual has the same non-zero sign at both ends.
NoSignChange == ~sv_fa.err /\ ~sv_fb.err /\ sv_fa.s * sv_fb.s > 0

\* Some evaluation of the residual made by the call raised.
EvaluationRaised == sv_out.sol.status = "raised"

\* The float returned is a number above zero.
ReturnsPositive == ~sv_out.nan /\ DCmp(sv_out.n, 0) > 0

\* C5: for sigma >= 0 and r > 0 the call ends with a value, a converged
\* n > 0 or the failure marker, and with the failure marker whenever the
\* residual has the same sign at both ends of the bracket, whenever an
\* evaluation raises and whenever the bisection ends unconverged.
C5_ReturnsRootOrFailureMarker ==
    sv_pc = "done" =>
        /\ sv_out.sol.status \in {"converged", "signerr", "raised", "converr"}
        /\ (sv_out.nan \/ ReturnsPositive)
        /\ (sv_out.sol.status = "converged" => ReturnsPositive)
        /\ (NoSignChange => sv_out.nan)
        /\ (EvaluationRaised => sv_out.nan)
        /\ (sv_out.sol.status = "converr" => sv_out.nan)

\* A call that found no sign change, one whose evaluation raised and one
\* that converged have all been made.
C5_Witness ==
    /\ sv_pc = "done"
    /\ sv_out.sol.status = "signerr"
    /\ sv_out.nan
    /\ NoSignChange
    /\ sv_sigma = 0
    /\ sv_r = 18

\* C9 as stated: for every sigma >= 0 and r > 0 the seeded bracket has
\* 0.5 <= bracket_low < bracket_high <= 50.
C9_BracketAlwaysWellFormed ==
    sv_pc = "done" =>
        /\ PerYear \div 2 <= sv_low
        /\ sv_low < sv_high
        /\ sv_high <= 50 * PerYear

\* 0.002 < r + 0.4 sigma < 20, that is 0.05 < n_guess < 500.
GuessInRange ==
    /\ 2 * sv_r + GuessLam * sv_sigma > 4
    /\ 2 * sv_r + GuessLam * sv_sigma < 40000

\* C9 amended: bracket_low >= 0.5 and bracket_high <= 50 for every sigma >= 0
\* and r > 0, and bracket_low < bracket_high when 0.002 < r + 0.4 sigma < 20.
C9_BracketWellFormedInRange ==
    sv_pc = "done" =>
        /\ PerYear \div 2 <= sv_low
        /\ sv_high <= 50 * PerYear
        /\ (GuessInRange => sv_low < sv_high)

\* A call whose guess is in range and whose bracket is a proper interval
\* with neither end clamped away: sigma = 0.1, r = 0.018.
C9_Witness ==
    /\ sv_pc = "done"
    /\ GuessInRange
    /\ sv_sigma = 10
    /\ sv_r = 18
    /\ sv_low > PerYear \div 2
    /\ sv_low < sv_high
    /\ sv_high = 50 * PerYear

\* The seeded bracket lies inside [0.5, 50].
BracketInside ==
    /\ PerYear \div 2 <= sv_low
    /\ sv_low <= sv_high
    /\ sv_high <= 50 * PerYear

\* After iteration k the bracket [xa, xa + dm] still has the residual change
\* sign across it, and dm is the starting width halved k times.
SignChangeKept(k) ==
    LET e == sv_out.sol.trace[k]
        atA == equation(sv_f, e.xa)
        atB == equation(sv_f, DAdd(e.xa, e.dm))
    IN  /\ e.dm.k = k
        /\ e.dm.i * 2^k + e.dm.f = sv_high - sv_low
        /\ ~atA.err /\ ~atB.err
        /\ atA.s * sv_fa.s >= 0
        /\ atB.s * sv_fa.s <= 0
        /\ DLeq(D(sv_low), e.xa)
        /\ DLeq(DAdd(e.xa, e.dm), D(sv_high))

\* C10: a call ends; from a sign-changing bracket inside [0.5, 50] whose
\* evaluations do not raise, every iteration keeps the sign change in a
\* bracket of half the width, the call converges within the budget and
\* returns n with bracket_low <= n <= bracket_high; it never ends
\* unconverged.
C10_BisectionConvergesWithinBudget ==
    sv_pc = "done" =>
        /\ sv_out.sol.iterations <= MaxIter
        /\ (SignChangingBracket /\ BracketInside /\ ~EvaluationRaised) =>
            /\ sv_out.sol.status = "converged"
            /\ ~sv_out.nan
            /\ sv_out.sol.iterations >= 1
            /\ sv_out.sol.iterations < MaxIter
            /\ Len(sv_out.sol.trace) = sv_out.sol.iterations
            /\ \/ WithinTol(sv_out.sol.trace[sv_out.sol.iterations].dm)
               \/ equation(sv_f, sv_out.n).s = 0
            /\ \A k \in 1..Len(sv_out.sol.trace) : SignChangeKept(k)
            /\ DLeq(D(sv_low), sv_out.n)
            /\ DLeq(sv_out.n, D(sv_high))
        /\ (SignChangingBracket => sv_out.sol.status # "converr")

\* A call from the widest bracket the script meets, [1.72.., 50], that
\* halved 26 times before the width fell to the tolerance.
C10_Witness ==
    /\ sv_pc = "done"
    /\ SignChangingBracket
    /\ BracketInside
    /\ sv_out.sol.status = "converged"
    /\ sv_out.sol.iterations = 26
    /\ WithinTol(sv_out.sol.trace[26].dm)
    /\ ~WithinTol(sv_out.sol.trace[25].dm)
    /\ sv_f.root = 47392764

----------------------------------------------------------------------------
(* Claims about the script, under Spec *)

AfterSweep == pc \in {"nonlin_star", "lin_star", "table", "done"}

\* C4: the solver is called once for every grid point, in grid order; a
\* failed point is recorded as NaN and the sweep goes on, so that n_nonlin
\* ends with N entries, one for each grid point.
C4_SweepSolvesEveryPoint ==
    /\ Len(calls) = Len(n_nonlin)
    /\ Len(calls) <= Len(sigma_grid)
    /\ \A i \in 1..Len(calls) : calls[i] = sigma_grid[i]
    /\ AfterSweep =>
        /\ Len(n_nonlin) = par.N_POINTS
        /\ calls = sigma_grid
        /\ \A i \in 1..Len(n_nonlin) :
              n_nonlin[i].nan =>
                  \A j \in (i + 1)..par.N_POINTS : j \in DOMAIN n_nonlin

\* A finished run over three grid points whose first point failed and whose
\* later points were solved.
C4_Witness ==
    /\ pc = "done"
    /\ par.N_POINTS = 3
    /\ Len(n_nonlin) = 3
    /\ n_nonlin[1].nan
    /\ ~n_nonlin[2].nan
    /\ ~n_nonlin[3].nan
    /\ calls = sigma_grid

\* sigma_min <= 0, sigma_max <= sigma_min, M <= 1 or N < 2
Malformed(p) ==
    \/ p.SIGMA_MIN <= 0
    \/ p.SIGMA_MAX <= p.SIGMA_MIN
    \/ p.M <= 1
    \/ p.N_POINTS < 2

\* C7: malformed parameters are rejected at the start: the grid is not
\* built, no anchor is evaluated and the solver is not called.
C7_MalformedParametersRejected ==
    Malformed(par) =>
        /\ pc = "grid"
        /\ sigma_grid = <<>>
        /\ E_T = <<>>
        /\ calls = <<>>

\* An equilibrium of two curves exists: some adjacent pair of defined
\* differences changes sign.
EquilibriumExists(y1, y2) == DefinedChanges(CurveDiff(y1, y2)) # {}

\* The lambdas, in configured order from position k on, for which the linear
\* and the non-linear equilibrium both exist.
RECURSIVE LambdasWithEquilibria(_)
LambdasWithEquilibria(k) ==
    IF k > Len(par.LAMBDA_LIST) THEN <<>>
    ELSE (IF /\ EquilibriumExists(n_lin_dict[k], E_T)
             /\ EquilibriumExists(n_nonlin_valid, E_T_valid)
          THEN <<par.LAMBDA_LIST[k]>> ELSE <<>>) \o LambdasWithEquilibria(k + 1)

\* The lambdas, in configured order from position k on, for which
\* find_intersection returned something other than None both times.
RECURSIVE LambdasWithValues(_)
LambdasWithValues(k) ==
    IF k > Len(par.LAMBDA_LIST) THEN <<>>
    ELSE (IF ~sigma_star_lin_dict[k].none /\ ~sigma_star_nonlin.none
          THEN <<par.LAMBDA_LIST[k]>> ELSE <<>>) \o LambdasWithValues(k + 1)

\* Every row carries the one non-linear sigma* and the difference
\* linear sigma* - non-linear sigma*.
RowsConsistent ==
    \A i \in 1..Len(table) :
        /\ table[i].nonlin_star = AsFloat(sigma_star_nonlin)
        /\ table[i].diff = FSub(table[i].lin_star, table[i].nonlin_star)
        /\ \E k \in 1..Len(par.LAMBDA_LIST) :
              /\ par.LAMBDA_LIST[k] = table[i].lam
              /\ table[i].lin_star = AsFloat(sigma_star_lin_dict[k])

\* C8: the table has, in configured lambda order, one row for each lambda for
\* which the linear and the non-linear equilibrium both exist and no other
\* row; every row carries the one non-linear sigma* and the difference.
\* Stated for well-formed parameters.
C8_TableHasRowPerEquilibrium ==
    (pc = "done" /\ ~Malformed(par)) =>
        /\ [i \in 1..Len(table) |-> table[i].lam] = LambdasWithEquilibria(1)
        /\ RowsConsistent

\* The same with "exists" read as "find_intersection did not return None":
\* this the code does.
TableHasRowPerReturnedValue ==
    pc = "done" =>
        /\ [i \in 1..Len(table) |-> table[i].lam] = LambdasWithValues(1)
        /\ RowsConsistent

====
